---- MODULE Spec2Model ----
(***************************************************************************)
(* A model of udbq (src/udbq.py): the query builder (classes where and     *)
(* table), its rendering algorithm, the cursor-backed ResultSet and the     *)
(* executor DB over a driver connection.                                   *)
(*                                                                         *)
(* Representation.                                                         *)
(*  - SQL text is a sequence of tokens (strings); string concatenation and *)
(*    "sep".join are concatenation of token sequences, white space is not  *)
(*    represented.  The placeholder is the token "?".                      *)
(*  - Bound values are integers; a value list is a sequence of integers.   *)
(*  - Python objects live in two heaps: stmts (table objects) and conds    *)
(*    (where objects).  A reference is an index into the heap, 0 is None.  *)
(*    Objects are never freed.                                             *)
(*  - A method is an operator from a heap H = [stmts, conds] to a result   *)
(*    [H, ret, err]: the heap after the call, the object returned and the  *)
(*    exception raised ("none" when the call returns).                     *)
(*  - calls is the number of builder calls a behaviour may still make.     *)
(*  - err is the exception the last builder call raised, "none" when it    *)
(*    returned.                                                            *)
(*  - rendered is what render() returned when it was the last call made on *)
(*    a statement: the statement, the text, the values, the exception, and *)
(*    the where object whose list the returned value list is (0 when it is *)
(*    a new object).  stmt = 0 when the last call was not render().        *)
(***************************************************************************)
EXTENDS Integers, Sequences, FiniteSets, TLC

\* Bounds of the model.
MaxStmts == 4      \* table objects on the heap
MaxCalls == 2      \* builder calls in one behaviour of Spec (one more in SpecDeep)
MaxChain == 3      \* where/having/and_/or_ calls in one behaviour of SpecChain
MaxRows  == 2      \* rows a cursor can hold
MaxSets  == 2      \* ResultSet objects
MaxOps   == 4      \* next()/close() calls in one behaviour
MaxConds == 3      \* where objects in one behaviour of SpecCond
MaxDbOps == 3      \* calls on the DB object in one behaviour of SpecDB
MaxCursors == 1    \* cursors the DB object opens in one behaviour of SpecDB

VARIABLES stmts, conds, calls, err, rendered, cursors, rsets, rlog, ops,
          db, sqlconn, dlog, scope

vars == <<stmts, conds, calls, err, rendered, cursors, rsets, rlog, ops, db, sqlconn, dlog, scope>>
dvars == <<db, sqlconn, dlog, scope>>
bvars == <<stmts, conds, calls, err, rendered>>
rvars == <<cursors, rsets, rlog, ops>>

Heap == [stmts |-> stmts, conds |-> conds]

(***************************************************************************)
(* Token sequences                                                         *)
(***************************************************************************)
\* "tok" * n as a list of n tokens
Rep(n, tok) == [i \in 1..n |-> tok]

\* concatenation of a sequence of sequences
RECURSIVE Flatten(_)
Flatten(ss) == IF ss = <<>> THEN <<>> ELSE Head(ss) \o Flatten(Tail(ss))

\* sep.join(parts), every part a token sequence
RECURSIVE Join(_, _)
Join(sep, parts) ==
    IF parts = <<>> THEN <<>>
    ELSE IF Len(parts) = 1 THEN parts[1]
    ELSE parts[1] \o sep \o Join(sep, Tail(parts))

\* number of occurrences of tok in seq
Count(tok, seq) == Cardinality({i \in DOMAIN seq : seq[i] = tok})

\* the elements of a finite set of integers, ascending
RECURSIVE SortedSeq(_)
SortedSeq(S) ==
    IF S = {} THEN <<>>
    ELSE LET m == CHOOSE x \in S : \A y \in S : x <= y
         IN  <<m>> \o SortedSeq(S \ {m})

Index(seq, x) == CHOOSE i \in DOMAIN seq : seq[i] = x

(***************************************************************************)
(* Arguments of where(cond=None, *vals, **kwargs)                          *)
(*   a keyword value is a scalar, a tuple or None: [k, t, v] with t one of *)
(*   "scalar", "tuple", "none" and v the integers it carries.              *)
(***************************************************************************)
Kw(k, v)      == [k |-> k, t |-> "scalar", v |-> <<v>>]
KwTuple(k, v) == [k |-> k, t |-> "tuple", v |-> v]
KwNone(k)     == [k |-> k, t |-> "none", v |-> <<>>]

\* where(**kwargs)
ByKw(kwargs) == [isWhere |-> FALSE, ref |-> 0, hasCond |-> FALSE,
                 cond |-> <<>>, vals |-> <<>>, kwargs |-> kwargs]
\* where("text", *vals)
ByText(cond, vals) == [isWhere |-> FALSE, ref |-> 0, hasCond |-> TRUE,
                       cond |-> cond, vals |-> vals, kwargs |-> <<>>]
\* where("text", *vals, **kwargs)
ByBoth(cond, vals, kwargs) == [isWhere |-> FALSE, ref |-> 0, hasCond |-> TRUE,
                               cond |-> cond, vals |-> vals, kwargs |-> kwargs]
\* and_(<where object>)
ByWhere(c) == [isWhere |-> TRUE, ref |-> c, hasCond |-> TRUE,
               cond |-> <<>>, vals |-> <<>>, kwargs |-> <<>>]

(***************************************************************************)
(* class where                                                             *)
(***************************************************************************)
\* one kwargs item of render_clause: its text and its values
KeyText(e) ==
    IF e.t = "tuple" THEN <<e.k, "IN", "(">> \o Join(<<",">>, [i \in DOMAIN e.v |-> <<"?">>]) \o <<")">>
    ELSE IF e.t = "none" THEN <<e.k, "IS", "NULL">>
    ELSE <<e.k, "=", "?">>

KeyVals(e) == IF e.t = "none" THEN <<>> ELSE e.v

\* render_clause that ignores the keyword arguments when a text is given
where_render_clause_lenient(a) ==
    IF a.hasCond
    THEN [err |-> "none", cond |-> a.cond \o Rep(Len(a.vals), "?"), vals |-> a.vals]
    ELSE [err |-> "none",
          cond |-> Join(<<"AND">>, [i \in DOMAIN a.kwargs |-> KeyText(a.kwargs[i])]),
          vals |-> Flatten([i \in DOMAIN a.kwargs |-> KeyVals(a.kwargs[i])])]

\* where.render_clause: [err, cond, vals]
where_render_clause(a) ==
    IF a.hasCond /\ a.kwargs # <<>>
    THEN [err |-> "TypeError", cond |-> <<>>, vals |-> <<>>]
    ELSE IF a.hasCond
    THEN [err |-> "none", cond |-> a.cond \o Rep(Len(a.vals), "?"), vals |-> a.vals]
    ELSE [err |-> "none",
          cond |-> Join(<<"AND">>, [i \in DOMAIN a.kwargs |-> KeyText(a.kwargs[i])]),
          vals |-> Flatten([i \in DOMAIN a.kwargs |-> KeyVals(a.kwargs[i])])]

\* where.__init__: a new where object at the end of the heap.  A where object
\* given as cond makes `cond += " ?" * len(vals)` raise TypeError.
where_init(H, a) ==
    LET rc == IF a.isWhere THEN [err |-> "TypeError", cond |-> <<>>, vals |-> <<>>]
              ELSE where_render_clause(a)
    IN  IF rc.err # "none" THEN [H |-> H, ret |-> 0, err |-> rc.err]
        ELSE [H |-> [H EXCEPT !.conds = Append(H.conds, [cond |-> rc.cond, vals |-> rc.vals])],
              ret |-> Len(H.conds) + 1, err |-> "none"]

\* where._connect wrapping every appended fragment in parentheses
where_connect_paren(H, c, op, a) ==
    LET frag == IF a.isWhere THEN H.conds[a.ref] ELSE where_render_clause(a)
    IN  IF ~a.isWhere /\ frag.err # "none" THEN [H |-> H, ret |-> 0, err |-> frag.err]
        ELSE [H |-> [H EXCEPT !.conds[c] =
                        [cond |-> H.conds[c].cond \o <<op, "(">> \o frag.cond \o <<")">>,
                         vals |-> H.conds[c].vals \o frag.vals]],
              ret |-> c, err |-> "none"]

\* where._connect appending a where object's text without parentheses
where_connect_flat(H, c, op, a) ==
    LET frag == IF a.isWhere THEN H.conds[a.ref] ELSE where_render_clause(a)
    IN  IF ~a.isWhere /\ frag.err # "none" THEN [H |-> H, ret |-> 0, err |-> frag.err]
        ELSE [H |-> [H EXCEPT !.conds[c] =
                        [cond |-> H.conds[c].cond \o <<op>> \o frag.cond,
                         vals |-> H.conds[c].vals \o frag.vals]],
              ret |-> c, err |-> "none"]

\* where._connect: appends to the where object c in place and returns it
where_connect(H, c, op, a) ==
    IF a.isWhere
    THEN [H |-> [H EXCEPT !.conds[c] =
                    [cond |-> H.conds[c].cond \o <<op, "(">> \o H.conds[a.ref].cond \o <<")">>,
                     vals |-> H.conds[c].vals \o H.conds[a.ref].vals]],
          ret |-> c, err |-> "none"]
    ELSE LET rc == where_render_clause(a)
         IN  IF rc.err # "none" THEN [H |-> H, ret |-> 0, err |-> rc.err]
             ELSE [H |-> [H EXCEPT !.conds[c] =
                             [cond |-> H.conds[c].cond \o <<op>> \o rc.cond,
                              vals |-> H.conds[c].vals \o rc.vals]],
                   ret |-> c, err |-> "none"]

where_and_(H, c, a) == where_connect(H, c, "AND", a)

where_or_(H, c, a) == where_connect(H, c, "OR", a)

(***************************************************************************)
(* class table                                                             *)
(***************************************************************************)
\* a column of select(): a name, or a table object (scalar sub-select)
Col(name) == [isStmt |-> FALSE, name |-> name, ref |-> 0]
SubCol(s) == [isStmt |-> TRUE, name |-> "", ref |-> s]

\* an assignment of insert/replace/update: k=v, or k=(raw, *v)
Asg(k, v) == [k |-> k, isTuple |-> FALSE, raw |-> <<>>, v |-> <<v>>]
AsgExpr(k, raw, v) == [k |-> k, isTuple |-> TRUE, raw |-> raw, v |-> v]

\* table.__init__(*tables).  The attribute updates does not exist until
\* insert/replace/update sets it and is not read before; it starts empty here.
table_init(tables) ==
    [pristine |-> TRUE, row_type |-> "Model", tables |-> tables, op |-> "SELECT",
     cols |-> <<Col("*")>>, updates |-> <<>>, cond |-> 0,
     _order_by |-> <<>>, _group_by |-> <<>>, _having |-> 0,
     _limit |-> <<>>, _offset |-> <<>>, withs |-> <<>>, alias |-> "None"]

\* the table objects a table object refers to (its CTEs and sub-select columns)
Refs(st) ==
    {st.withs[i].query : i \in DOMAIN st.withs}
    \cup {st.cols[i].ref : i \in {j \in DOMAIN st.cols : st.cols[j].isStmt}}

RECURSIVE ReachN(_, _, _)
ReachN(H, S, n) ==
    IF n = 0 THEN S
    ELSE ReachN(H, S \cup UNION {Refs(H.stmts[x]) : x \in S}, n - 1)

\* every table object reachable from s, s included
Reach(H, s) == ReachN(H, {s}, Len(H.stmts))

\* the where objects a table object refers to
CondRefs(st) == {st.cond, st._having} \ {0}

\* a shallow copy: a new table object whose attributes are the same objects
table_copy_shallow(H, s) ==
    [H |-> [H EXCEPT !.stmts = Append(H.stmts, H.stmts[s])],
     ret |-> Len(H.stmts) + 1, err |-> "none"]

\* copy.deepcopy(self): s, every table object reachable from it and all their
\* where objects are copied to new objects; references inside the copy point
\* to the copies (deepcopy's memo keeps sharing inside the copied structure).
table_copy(H, s) ==
    LET R  == SortedSeq(Reach(H, s))
        C  == SortedSeq(UNION {CondRefs(H.stmts[x]) : x \in Reach(H, s)})
        ns == Len(H.stmts)
        nc == Len(H.conds)
        mapS(x) == ns + Index(R, x)
        mapC(c) == IF c = 0 THEN 0 ELSE nc + Index(C, c)
        cp(st)  == [st EXCEPT
                      !.cond = mapC(st.cond),
                      !._having = mapC(st._having),
                      !.withs = [i \in DOMAIN st.withs |->
                                   [alias |-> st.withs[i].alias, query |-> mapS(st.withs[i].query)]],
                      !.cols = [i \in DOMAIN st.cols |->
                                   IF st.cols[i].isStmt THEN SubCol(mapS(st.cols[i].ref))
                                   ELSE st.cols[i]]]
    IN  [H |-> [stmts |-> H.stmts \o [i \in 1..Len(R) |-> cp(H.stmts[R[i]])],
                conds |-> H.conds \o [i \in 1..Len(C) |-> H.conds[C[i]]]],
         ret |-> mapS(s), err |-> "none"]

\* clone_if that copies whatever the flag is
table_clone_if_always(H, s) ==
    LET c == table_copy(H, s)
    IN  [H |-> [c.H EXCEPT !.stmts[c.ret].pristine = FALSE], ret |-> c.ret, err |-> "none"]

\* clone_if that leaves the flag of the copy set
table_clone_if_keepflag(H, s) ==
    IF H.stmts[s].pristine THEN table_copy(H, s)
    ELSE [H |-> H, ret |-> s, err |-> "none"]

\* clone_if that clears the flag of self without copying
table_clone_if_inplace(H, s) ==
    [H |-> [H EXCEPT !.stmts[s].pristine = FALSE], ret |-> s, err |-> "none"]

\* table.clone_if
table_clone_if(H, s) ==
    IF H.stmts[s].pristine
    THEN LET c == table_copy(H, s)
         IN  [H |-> [c.H EXCEPT !.stmts[c.ret].pristine = FALSE], ret |-> c.ret, err |-> "none"]
    ELSE [H |-> H, ret |-> s, err |-> "none"]

\* a method body that assigns attributes of s and returns s
Ok(H, s) == [H |-> H, ret |-> s, err |-> "none"]

table_with_(H, s, alias, query) ==
    Ok([H EXCEPT !.stmts[s].withs = Append(H.stmts[s].withs, [alias |-> alias, query |-> query])], s)

table_add_table(H, s, t) ==
    Ok([H EXCEPT !.stmts[s].tables = Append(H.stmts[s].tables, <<t>>)], s)

\* join and left_join assign tables[-1]: IndexError on an empty table list
table_join(H, s, t, on_clause) ==
    LET ts == H.stmts[s].tables
    IN  IF ts = <<>> THEN [H |-> H, ret |-> 0, err |-> "IndexError"]
        ELSE Ok([H EXCEPT !.stmts[s].tables[Len(ts)] = ts[Len(ts)] \o <<"JOIN", t, "ON">> \o on_clause], s)

table_left_join(H, s, t, on_clause) ==
    LET ts == H.stmts[s].tables
    IN  IF ts = <<>> THEN [H |-> H, ret |-> 0, err |-> "IndexError"]
        ELSE Ok([H EXCEPT !.stmts[s].tables[Len(ts)] = ts[Len(ts)] \o <<"LEFT", "JOIN", t, "ON">> \o on_clause], s)

table_select(H, s, cols) ==
    LET c == table_clone_if(H, s)
    IN  Ok([c.H EXCEPT !.stmts[c.ret].op = "SELECT",
                       !.stmts[c.ret].cols = IF cols = <<>> THEN <<Col("*")>> ELSE cols], c.ret)

table_insert(H, s, kwargs) ==
    Ok([H EXCEPT !.stmts[s].op = "INSERT", !.stmts[s].updates = kwargs], s)

table_replace(H, s, kwargs) ==
    Ok([H EXCEPT !.stmts[s].op = "INSERT OR REPLACE", !.stmts[s].updates = kwargs], s)

table_update(H, s, kwargs) ==
    Ok([H EXCEPT !.stmts[s].op = "UPDATE", !.stmts[s].updates = kwargs], s)

table_delete(H, s) ==
    Ok([H EXCEPT !.stmts[s].op = "DELETE"], s)

\* table.where: the copy made by clone_if stays on the heap when where()
\* raises, but nothing refers to it
table_where(H, s, a) ==
    LET c == table_clone_if(H, s)
    IN  IF c.H.stmts[c.ret].cond = 0
        THEN LET w == where_init(c.H, a)
             IN  IF w.err # "none" THEN [H |-> c.H, ret |-> 0, err |-> w.err]
                 ELSE Ok([w.H EXCEPT !.stmts[c.ret].cond = w.ret], c.ret)
        ELSE LET w == where_and_(c.H, c.H.stmts[c.ret].cond, a)
             IN  IF w.err # "none" THEN [H |-> c.H, ret |-> 0, err |-> w.err]
                 ELSE Ok(w.H, c.ret)

table_having(H, s, a) ==
    LET c == table_clone_if(H, s)
    IN  IF c.H.stmts[c.ret]._having = 0
        THEN LET w == where_init(c.H, a)
             IN  IF w.err # "none" THEN [H |-> c.H, ret |-> 0, err |-> w.err]
                 ELSE Ok([w.H EXCEPT !.stmts[c.ret]._having = w.ret], c.ret)
        ELSE LET w == where_and_(c.H, c.H.stmts[c.ret]._having, a)
             IN  IF w.err # "none" THEN [H |-> c.H, ret |-> 0, err |-> w.err]
                 ELSE Ok(w.H, c.ret)

\* and_ that makes the WHERE condition when the statement has none
table_and_create(H, s, a) ==
    IF H.stmts[s].cond = 0
    THEN LET w == where_init(H, a)
         IN  IF w.err # "none" THEN [H |-> H, ret |-> 0, err |-> w.err]
             ELSE Ok([w.H EXCEPT !.stmts[s].cond = w.ret], s)
    ELSE LET w == where_and_(H, H.stmts[s].cond, a)
         IN  IF w.err # "none" THEN [H |-> H, ret |-> 0, err |-> w.err] ELSE Ok(w.H, s)

\* table.and_ / table.or_: self.cond.and_(...) on None raises AttributeError
table_and_(H, s, a) ==
    IF H.stmts[s].cond = 0 THEN [H |-> H, ret |-> 0, err |-> "AttributeError"]
    ELSE LET w == where_and_(H, H.stmts[s].cond, a)
         IN  IF w.err # "none" THEN [H |-> H, ret |-> 0, err |-> w.err] ELSE Ok(w.H, s)

table_or_(H, s, a) ==
    IF H.stmts[s].cond = 0 THEN [H |-> H, ret |-> 0, err |-> "AttributeError"]
    ELSE LET w == where_or_(H, H.stmts[s].cond, a)
         IN  IF w.err # "none" THEN [H |-> H, ret |-> 0, err |-> w.err] ELSE Ok(w.H, s)

table_group_by(H, s, cols) ==
    LET c == table_clone_if(H, s)
    IN  Ok([c.H EXCEPT !.stmts[c.ret]._group_by =
              <<"GROUP", "BY">> \o Join(<<",">>, [i \in DOMAIN cols |-> <<cols[i]>>])], c.ret)

table_order_by(H, s, cols) ==
    LET c == table_clone_if(H, s)
    IN  Ok([c.H EXCEPT !.stmts[c.ret]._order_by =
              <<"ORDER", "BY">> \o Join(<<",">>, [i \in DOMAIN cols |-> <<cols[i]>>])], c.ret)

\* "%d" % n: the decimal digits of n as one token of the text
Fmt_d(n) == <<ToString(n)>>

table_limit(H, s, n) ==
    LET c == table_clone_if(H, s)
    IN  Ok([c.H EXCEPT !.stmts[c.ret]._limit = <<"LIMIT">> \o Fmt_d(n)], c.ret)

table_offset(H, s, n) ==
    LET c == table_clone_if(H, s)
    IN  Ok([c.H EXCEPT !.stmts[c.ret]._offset = <<"OFFSET">> \o Fmt_d(n)], c.ret)

table_as_(H, s, alias) ==
    Ok([H EXCEPT !.stmts[s].alias = alias], s)

(***************************************************************************)
(* table.render: [err, sql, vals]                                          *)
(***************************************************************************)
IsInsert(op) == op \in {"INSERT", "INSERT OR REPLACE"}

\* the clauses with HAVING emitted before GROUP BY
render_clauses_having_first(H, self) ==
    LET w == IF self.cond # 0
             THEN [sql |-> <<"WHERE">> \o H.conds[self.cond].cond, vals |-> H.conds[self.cond].vals]
             ELSE [sql |-> <<>>, vals |-> <<>>]
        h == IF self._having # 0
             THEN [sql |-> <<"HAVING">> \o H.conds[self._having].cond, vals |-> H.conds[self._having].vals]
             ELSE [sql |-> <<>>, vals |-> <<>>]
    IN  [sql  |-> w.sql \o h.sql \o self._group_by \o self._order_by \o self._limit \o self._offset,
         vals |-> w.vals \o h.vals]

\* the clauses after the statement head: WHERE, GROUP BY, HAVING, ORDER BY,
\* LIMIT, OFFSET.  `if self.cond:` is true of every where object.
render_clauses(H, self) ==
    LET w == IF self.cond # 0
             THEN [sql |-> <<"WHERE">> \o H.conds[self.cond].cond, vals |-> H.conds[self.cond].vals]
             ELSE [sql |-> <<>>, vals |-> <<>>]
        h == IF self._having # 0
             THEN [sql |-> <<"HAVING">> \o H.conds[self._having].cond, vals |-> H.conds[self._having].vals]
             ELSE [sql |-> <<>>, vals |-> <<>>]
    IN  [sql  |-> w.sql \o self._group_by \o h.sql \o self._order_by \o self._limit \o self._offset,
         vals |-> w.vals \o h.vals]

\* INSERT / INSERT OR REPLACE: `vals = tuple(self.updates.values())` replaces
\* the list built so far.  insert() and replace() are given scalar values.
render_insert(self, tables, vals) ==
    [sql  |-> <<"INTO">> \o tables \o <<"(">>
              \o Join(<<",">>, [i \in DOMAIN self.updates |-> <<self.updates[i].k>>])
              \o <<")", "VALUES", "(">>
              \o Join(<<",">>, [i \in DOMAIN self.updates |-> <<"?">>]) \o <<")">>,
     vals |-> Flatten([i \in DOMAIN self.updates |-> self.updates[i].v])]

\* UPDATE: <tables> SET k=?, k=<raw>, ...
render_update(self, tables, vals) ==
    [sql  |-> tables \o <<"SET">>
              \o Join(<<",">>, [i \in DOMAIN self.updates |->
                    IF self.updates[i].isTuple
                    THEN <<self.updates[i].k, "=">> \o self.updates[i].raw
                    ELSE <<self.updates[i].k, "=", "?">>]),
     vals |-> vals \o Flatten([i \in DOMAIN self.updates |-> self.updates[i].v])]

RECURSIVE table_render(_, _)
table_render(H, s) ==
    LET self   == H.stmts[s]
        subs   == [i \in DOMAIN self.withs |-> table_render(H, self.withs[i].query)]
        wsql   == IF self.withs = <<>> THEN <<>>
                  ELSE <<"WITH">> \o Join(<<",">>, [i \in DOMAIN self.withs |->
                           <<self.withs[i].alias, "AS", "(">> \o subs[i].sql \o <<")">>])
        wvals  == Flatten([i \in DOMAIN self.withs |-> subs[i].vals])
        tables == Join(<<",">>, self.tables)
        csub   == [i \in DOMAIN self.cols |->
                     IF self.cols[i].isStmt THEN table_render(H, self.cols[i].ref)
                     ELSE [err |-> "none", sql |-> <<>>, vals |-> <<>>]]
        ctext  == Join(<<",">>, [i \in DOMAIN self.cols |->
                     IF self.cols[i].isStmt
                     THEN <<"(">> \o csub[i].sql \o <<")", "AS", H.stmts[self.cols[i].ref].alias>>
                     ELSE <<self.cols[i].name>>])
        cvals  == Flatten([i \in DOMAIN self.cols |-> csub[i].vals])
        from   == IF self.tables # <<>> THEN <<"FROM">> \o tables ELSE <<>>
        tail   == render_clauses(H, self)
        sub_err == \/ \E i \in DOMAIN subs : subs[i].err # "none"
                   \/ self.op = "SELECT" /\ \E i \in DOMAIN csub : csub[i].err # "none"
    IN  IF sub_err THEN [err |-> "ValueError", sql |-> <<>>, vals |-> <<>>]
        ELSE IF IsInsert(self.op)
        THEN LET r == render_insert(self, tables, wvals)
             IN  [err |-> "none", sql |-> wsql \o <<self.op>> \o r.sql, vals |-> r.vals]
        ELSE IF self.op = "SELECT"
        THEN [err |-> "none", sql |-> wsql \o <<self.op>> \o ctext \o from \o tail.sql,
              vals |-> wvals \o cvals \o tail.vals]
        ELSE IF self.op = "DELETE"
        THEN [err |-> "none", sql |-> wsql \o <<self.op>> \o from \o tail.sql,
              vals |-> wvals \o tail.vals]
        ELSE IF self.op = "UPDATE"
        THEN LET r == render_update(self, tables, wvals)
             IN  [err |-> "none", sql |-> wsql \o <<self.op>> \o r.sql \o tail.sql,
                  vals |-> r.vals \o tail.vals]
        ELSE [err |-> "ValueError", sql |-> <<>>, vals |-> <<>>]

\* render() that collects the values in the list of the WHERE condition:
\* the list is extended by the HAVING values and returned
table_render_call_aliased(H, s) ==
    LET r == table_render(H, s)
        self == H.stmts[s]
    IN  IF self.cond # 0 /\ ~IsInsert(self.op) /\ r.err = "none"
        THEN [H |-> [H EXCEPT !.conds[self.cond].vals =
                        @ \o (IF self._having # 0 THEN H.conds[self._having].vals ELSE <<>>)],
              ret |-> r, err |-> r.err, alias |-> self.cond]
        ELSE [H |-> H, ret |-> r, err |-> r.err, alias |-> 0]

\* a call of render(): [H, ret, err, alias].  render assigns no attribute of
\* any object; the values are collected in a list made by the call
\* (`vals = []`, extended in place by +=, .extend and .append) or are a new
\* tuple (INSERT), so the list returned is no where object's list.
table_render_call(H, s) ==
    LET r == table_render(H, s)
    IN  [H |-> H, ret |-> r, err |-> r.err, alias |-> 0]

(***************************************************************************)
(* The builder as a state machine: one action per public method call       *)
(***************************************************************************)
\* arguments the calls are made with
SelectArgs(s) ==
    {<<>>} \cup {<<Col("p"), SubCol(q)>> : q \in {x \in DOMAIN stmts : s \notin Reach(Heap, x)}}
InsertArgs  == {<<>>, <<Asg("x", 1), Asg("y", 2)>>}
ReplaceArgs == {<<>>, <<Asg("y", 2)>>}
UpdateArgs  == {<<>>, <<Asg("x", 1), AsgExpr("y", <<"y", "+", "?">>, <<2>>)>>}
WhereArgs   == {ByKw(<<Kw("x", 1)>>), ByKw(<<Kw("y", 2)>>)}
HavingArgs  == {ByKw(<<Kw("z", 3), KwNone("w")>>)}
AndArgs     == {ByKw(<<Kw("y", 2)>>), ByText(<<"z", ">">>, <<3>>)}
OrArgs      == {ByKw(<<Kw("z", 3)>>), ByKw(<<KwTuple("x", <<1, 2>>)>>)}
LimitArgs   == {5}
OffsetArgs  == {7}

NoRender == [stmt |-> 0, sql |-> <<>>, vals |-> <<>>, err |-> "none", alias |-> 0]

\* the heap after a call; a call that raises keeps what it did before raising
Apply(r) ==
    /\ calls > 0
    /\ Len(r.H.stmts) <= MaxStmts
    /\ stmts' = r.H.stmts
    /\ conds' = r.H.conds
    /\ calls' = calls - 1
    /\ err' = r.err
    /\ rendered' = NoRender
    /\ UNCHANGED <<rvars, dvars>>

Copy      == \E s \in DOMAIN stmts : Apply(table_copy(Heap, s))
Select    == \E s \in DOMAIN stmts : \E cols \in SelectArgs(s) : Apply(table_select(Heap, s, cols))
Insert    == \E s \in DOMAIN stmts : \E kw \in InsertArgs : Apply(table_insert(Heap, s, kw))
Replace   == \E s \in DOMAIN stmts : \E kw \in ReplaceArgs : Apply(table_replace(Heap, s, kw))
Update    == \E s \in DOMAIN stmts : \E kw \in UpdateArgs : Apply(table_update(Heap, s, kw))
Delete    == \E s \in DOMAIN stmts : Apply(table_delete(Heap, s))
Where     == \E s \in DOMAIN stmts : \E a \in WhereArgs : Apply(table_where(Heap, s, a))
Having    == \E s \in DOMAIN stmts : \E a \in HavingArgs : Apply(table_having(Heap, s, a))
And_      == \E s \in DOMAIN stmts : \E a \in AndArgs : Apply(table_and_(Heap, s, a))
Or_       == \E s \in DOMAIN stmts : \E a \in OrArgs : Apply(table_or_(Heap, s, a))
GroupBy   == \E s \in DOMAIN stmts : Apply(table_group_by(Heap, s, <<"g">>))
OrderBy   == \E s \in DOMAIN stmts : Apply(table_order_by(Heap, s, <<"o">>))
Limit     == \E s \in DOMAIN stmts : \E n \in LimitArgs : Apply(table_limit(Heap, s, n))
Offset    == \E s \in DOMAIN stmts : \E n \in OffsetArgs : Apply(table_offset(Heap, s, n))
\* a statement is registered as a CTE only where that builds no cycle
With_     == \E s \in DOMAIN stmts : \E q \in DOMAIN stmts :
                 s \notin Reach(Heap, q) /\ Apply(table_with_(Heap, s, "c", q))
As_       == \E s \in DOMAIN stmts : Apply(table_as_(Heap, s, "s"))
AddTable  == \E s \in DOMAIN stmts : Apply(table_add_table(Heap, s, "v"))
Join_     == \E s \in DOMAIN stmts : Apply(table_join(Heap, s, "j", <<"k">>))
LeftJoin  == \E s \in DOMAIN stmts : Apply(table_left_join(Heap, s, "j", <<"k">>))

\* the statements ss have been constructed and a DB opened; no ResultSet
\* exists and n builder calls can be made
StartFrom(ss, n) ==
    /\ stmts = ss
    /\ conds = <<>>
    /\ calls = n
    /\ err = "none"
    /\ rendered = NoRender
    /\ cursors = <<>>
    /\ rsets = <<>>
    /\ rlog = <<>>
    /\ ops = 0
    /\ db = [conn |-> 1]
    /\ sqlconn = [closed |-> FALSE, closes |-> 0]
    /\ dlog = [call |-> "init", stmt |-> 0, op |-> "", out |-> "return",
               ret |-> [kind |-> "DB", v |-> 0, cls |-> ""], cur |-> 0,
               drv |-> [execFails |-> FALSE, fetchFails |-> FALSE, rows |-> 0,
                        lastrowid |-> 0, rowcount |-> 0],
               closeCalls |-> 0]
    /\ scope = "none"

\* one statement, table("t"), has been constructed
Start(n) == StartFrom(<<table_init(<< <<"t">> >>)>>, n)

Init == Start(MaxCalls)

InitDeep == Start(MaxCalls + 1)

InitChain == Start(MaxChain)

Next ==
    \/ Copy \/ Select \/ Insert \/ Replace \/ Update \/ Delete
    \/ Where \/ Having \/ And_ \/ Or_
    \/ GroupBy \/ OrderBy \/ Limit \/ Offset
    \/ With_ \/ As_ \/ AddTable \/ Join_ \/ LeftJoin

\* every sequence of MaxCalls builder calls
Spec == Init /\ [][Next]_vars

\* the same calls, one call deeper
SpecDeep == InitDeep /\ [][Next]_vars

\* render() called on a statement
RenderCall ==
    \E s \in DOMAIN stmts :
        LET r == table_render_call(Heap, s)
        IN  /\ stmts' = r.H.stmts
            /\ conds' = r.H.conds
            /\ rendered' = [stmt |-> s, sql |-> r.ret.sql, vals |-> r.ret.vals,
                            err |-> r.err, alias |-> r.alias]
            /\ UNCHANGED <<calls, err, rvars, dvars>>

NextRender ==
    \/ Copy \/ Select \/ Insert \/ Replace \/ Update \/ Delete
    \/ Where \/ Having \/ And_ \/ Or_
    \/ GroupBy \/ OrderBy \/ Limit \/ Offset
    \/ With_ \/ As_ \/ AddTable \/ Join_ \/ LeftJoin
    \/ RenderCall

\* the builder calls, and render() between them
SpecRender == Init /\ [][NextRender]_vars

\* the calls that build conditions: where, having, and_, or_
NextChain == Where \/ Having \/ And_ \/ Or_

SpecChain == InitChain /\ [][NextChain]_vars

(***************************************************************************)
(* where objects built and combined on their own, and given to a           *)
(* statement's and_/or_                                                    *)
(***************************************************************************)
CondArgs == {ByKw(<<Kw("x", 1)>>), ByText(<<"z", ">">>, <<3>>),
             ByBoth(<<"z", ">">>, <<3>>, <<Kw("x", 1)>>)}

\* the arguments of and_/or_: a fragment, or a where object of the heap
ConnectArgs == CondArgs \cup {ByWhere(b) : b \in DOMAIN conds}

ApplyCond(r) ==
    /\ calls > 0
    /\ Len(r.H.conds) <= MaxConds
    /\ Apply(r)

WhereNew  == Len(conds) < MaxConds /\ \E a \in CondArgs : ApplyCond(where_init(Heap, a))
WhereAnd  == \E c \in DOMAIN conds : \E a \in ConnectArgs : ApplyCond(where_and_(Heap, c, a))
WhereOr   == \E c \in DOMAIN conds : \E a \in ConnectArgs : ApplyCond(where_or_(Heap, c, a))
\* the four condition methods of a statement, given any of these arguments
StmtWhere  == \E s \in DOMAIN stmts : \E a \in ConnectArgs : ApplyCond(table_where(Heap, s, a))
StmtHaving == \E s \in DOMAIN stmts : \E a \in ConnectArgs : ApplyCond(table_having(Heap, s, a))
StmtAnd    == \E s \in DOMAIN stmts : \E a \in ConnectArgs : ApplyCond(table_and_(Heap, s, a))
StmtOr     == \E s \in DOMAIN stmts : \E a \in ConnectArgs : ApplyCond(table_or_(Heap, s, a))

NextCond == WhereNew \/ WhereAnd \/ WhereOr \/ StmtWhere \/ StmtHaving \/ StmtAnd \/ StmtOr

SpecCond == InitChain /\ [][NextCond]_vars

(***************************************************************************)
(* class ResultSet over a driver cursor                                    *)
(*   cursors[c] = [rows, closed, closes]: the rows the cursor still holds, *)
(*   whether it is closed, and how often its close() was called.           *)
(*   rsets[r] = [cur, cls]: the attributes of a ResultSet, cur = 0 is None.*)
(*   rlog[r] = [call, out, done, closed]: the last call made on r, how it  *)
(*   ended, whether next() has signalled the end because the cursor        *)
(*   returned no row, and whether close() has been called.                 *)
(***************************************************************************)
\* the driver's Cursor.close()
cursor_close(cs, c) == [cs EXCEPT ![c].closed = TRUE, ![c].closes = cs[c].closes + 1]

\* ResultSet.__init__(cur, cls) on the cursor of an executed SELECT
ResultSet_init(c, cls) == [cur |-> c, cls |-> cls]

\* ResultSet.__next__: [cursors, rs, out]
ResultSet_next(cs, rs) ==
    IF rs.cur = 0
    THEN [cursors |-> cs, rs |-> rs, out |-> "AttributeError"]
    ELSE IF cs[rs.cur].rows = 0
    THEN [cursors |-> cursor_close(cs, rs.cur), rs |-> [rs EXCEPT !.cur = 0], out |-> "StopIteration"]
    ELSE [cursors |-> [cs EXCEPT ![rs.cur].rows = cs[rs.cur].rows - 1], rs |-> rs, out |-> "row"]

\* close() that leaves self.cur set
ResultSet_close_keep(cs, rs) ==
    IF rs.cur # 0
    THEN [cursors |-> cursor_close(cs, rs.cur), rs |-> rs, out |-> "return"]
    ELSE [cursors |-> cs, rs |-> rs, out |-> "return"]

\* ResultSet.close: [cursors, rs, out]
ResultSet_close(cs, rs) ==
    IF rs.cur # 0
    THEN [cursors |-> cursor_close(cs, rs.cur), rs |-> [rs EXCEPT !.cur = 0], out |-> "return"]
    ELSE [cursors |-> cs, rs |-> rs, out |-> "return"]

\* DB.__call__ on a SELECT: a new cursor holding n rows, wrapped in a ResultSet
Open ==
    \E n \in 0..MaxRows :
        /\ Len(rsets) < MaxSets
        /\ cursors' = Append(cursors, [rows |-> n, closed |-> FALSE, closes |-> 0])
        /\ rsets' = Append(rsets, ResultSet_init(Len(cursors) + 1, "Model"))
        /\ rlog' = Append(rlog, [call |-> "init", out |-> "return", done |-> FALSE, closed |-> FALSE])
        /\ UNCHANGED <<ops, stmts, conds, calls, err, rendered, dvars>>

RsNext ==
    \E r \in DOMAIN rsets :
        LET res == ResultSet_next(cursors, rsets[r])
        IN  /\ ops < MaxOps
            /\ cursors' = res.cursors
            /\ rsets' = [rsets EXCEPT ![r] = res.rs]
            /\ rlog' = [rlog EXCEPT ![r] = [call |-> "next", out |-> res.out,
                            done |-> rlog[r].done \/ (rsets[r].cur # 0 /\ res.out = "StopIteration"),
                            closed |-> rlog[r].closed]]
            /\ ops' = ops + 1
            /\ UNCHANGED <<bvars, dvars>>

RsClose ==
    \E r \in DOMAIN rsets :
        LET res == ResultSet_close(cursors, rsets[r])
        IN  /\ ops < MaxOps
            /\ cursors' = res.cursors
            /\ rsets' = [rsets EXCEPT ![r] = res.rs]
            /\ rlog' = [rlog EXCEPT ![r] = [call |-> "close", out |-> res.out,
                            done |-> rlog[r].done, closed |-> TRUE]]
            /\ ops' = ops + 1
            /\ UNCHANGED <<bvars, dvars>>

NextRS == Open \/ RsNext \/ RsClose

SpecRS == Init /\ [][NextRS]_vars

(***************************************************************************)
(* class DB over a driver connection                                       *)
(*   db = [conn]: the attribute of the DB object, 1 is the connection made *)
(*   by __init__ and 0 is None.  sqlconn = [closed, closes]: the driver's  *)
(*   connection and how often its close() was called.                      *)
(*   dlog is the last call made on the DB object: its name, the statement  *)
(*   given and its operation kind, how the call ended ("return" or the     *)
(*   exception), the value returned, the cursor opened during the call     *)
(*   (0: none), what the driver did in the call, and the number of close() *)
(*   and __exit__ calls made so far.                                       *)
(*   scope is the position of a `with db:` block: "none", "in", "left".    *)
(*   What the driver does in a call is an input of the call:               *)
(*   drv = [execFails, fetchFails, rows, lastrowid, rowcount].             *)
(***************************************************************************)
DbState == [db |-> db, sqlconn |-> sqlconn, cursors |-> cursors, rsets |-> rsets]

NoRet == [kind |-> "nothing", v |-> 0, cls |-> ""]

\* table(cls, *tables): a type given first is the row type
table_init_typed(cls, tables) == [table_init(tables) EXCEPT !.row_type = cls]

\* DB.execute: [D, cur, err].  s = 0 is an argument that is not a table.  The
\* cursor is made before the driver's execute runs and is not closed when
\* execute raises.
DB_execute(D, H, s, drv) ==
    IF s = 0 THEN [D |-> D, cur |-> 0, err |-> "TypeError"]
    ELSE LET r == table_render(H, s)
         IN  IF r.err # "none" THEN [D |-> D, cur |-> 0, err |-> r.err]
             ELSE IF D.db.conn = 0 THEN [D |-> D, cur |-> 0, err |-> "AttributeError"]
             ELSE LET c  == Len(D.cursors) + 1
                      D1 == [D EXCEPT !.cursors = Append(@,
                               [rows |-> IF drv.execFails THEN 0 ELSE drv.rows,
                                closed |-> FALSE, closes |-> 0])]
                  IN  [D |-> D1, cur |-> c, err |-> IF drv.execFails THEN "DriverError" ELSE "none"]

\* __call__ that closes the cursor in every branch
DB_call_close_all(D, H, s, drv) ==
    LET e == DB_execute(D, H, s, drv)
    IN  IF e.err # "none"
        THEN [D |-> e.D, out |-> e.err, ret |-> NoRet, cur |-> e.cur]
        ELSE IF IsInsert(H.stmts[s].op)
        THEN [D |-> [e.D EXCEPT !.cursors = cursor_close(@, e.cur)], out |-> "return",
              ret |-> [kind |-> "lastrowid", v |-> drv.lastrowid, cls |-> ""], cur |-> e.cur]
        ELSE IF H.stmts[s].op = "SELECT"
        THEN [D |-> [e.D EXCEPT !.cursors = cursor_close(@, e.cur),
                                !.rsets = Append(@, ResultSet_init(e.cur, H.stmts[s].row_type))],
              out |-> "return",
              ret |-> [kind |-> "ResultSet", v |-> Len(D.rsets) + 1, cls |-> H.stmts[s].row_type],
              cur |-> e.cur]
        ELSE [D |-> [e.D EXCEPT !.cursors = cursor_close(@, e.cur)], out |-> "return",
              ret |-> [kind |-> "rowcount", v |-> drv.rowcount, cls |-> ""], cur |-> e.cur]

\* DB.__call__: [D, out, ret, cur]
DB_call(D, H, s, drv) ==
    LET e == DB_execute(D, H, s, drv)
    IN  IF e.err # "none"
        THEN [D |-> e.D, out |-> e.err, ret |-> NoRet, cur |-> e.cur]
        ELSE IF IsInsert(H.stmts[s].op)
        THEN [D |-> [e.D EXCEPT !.cursors = cursor_close(@, e.cur)], out |-> "return",
              ret |-> [kind |-> "lastrowid", v |-> drv.lastrowid, cls |-> ""], cur |-> e.cur]
        ELSE IF H.stmts[s].op = "SELECT"
        THEN [D |-> [e.D EXCEPT !.rsets = Append(@, ResultSet_init(e.cur, H.stmts[s].row_type))],
              out |-> "return",
              ret |-> [kind |-> "ResultSet", v |-> Len(D.rsets) + 1, cls |-> H.stmts[s].row_type],
              cur |-> e.cur]
        ELSE [D |-> [e.D EXCEPT !.cursors = cursor_close(@, e.cur)], out |-> "return",
              ret |-> [kind |-> "rowcount", v |-> drv.rowcount, cls |-> ""], cur |-> e.cur]

\* first() that returns without closing the cursor when there is no row
DB_first_leave_open(D, H, s, drv) ==
    LET e == DB_execute(D, H, s, drv)
    IN  IF e.err # "none"
        THEN [D |-> e.D, out |-> e.err, ret |-> NoRet, cur |-> e.cur]
        ELSE IF drv.fetchFails
        THEN [D |-> e.D, out |-> "DriverError", ret |-> NoRet, cur |-> e.cur]
        ELSE IF e.D.cursors[e.cur].rows = 0
        THEN [D |-> e.D, out |-> "return", ret |-> [kind |-> "None", v |-> 0, cls |-> ""], cur |-> e.cur]
        ELSE [D |-> [e.D EXCEPT !.cursors = cursor_close(
                        [@ EXCEPT ![e.cur].rows = @ - 1], e.cur)],
              out |-> "return",
              ret |-> [kind |-> "row", v |-> 0, cls |-> H.stmts[s].row_type], cur |-> e.cur]

\* DB.first: [D, out, ret, cur].  fetchone raising leaves the cursor open.
DB_first(D, H, s, drv) ==
    LET e == DB_execute(D, H, s, drv)
    IN  IF e.err # "none"
        THEN [D |-> e.D, out |-> e.err, ret |-> NoRet, cur |-> e.cur]
        ELSE IF drv.fetchFails
        THEN [D |-> e.D, out |-> "DriverError", ret |-> NoRet, cur |-> e.cur]
        ELSE IF e.D.cursors[e.cur].rows = 0
        THEN [D |-> [e.D EXCEPT !.cursors = cursor_close(@, e.cur)],
              out |-> "return", ret |-> [kind |-> "None", v |-> 0, cls |-> ""], cur |-> e.cur]
        ELSE [D |-> [e.D EXCEPT !.cursors = cursor_close(
                        [@ EXCEPT ![e.cur].rows = @ - 1], e.cur)],
              out |-> "return",
              ret |-> [kind |-> "row", v |-> 0, cls |-> H.stmts[s].row_type], cur |-> e.cur]

\* close() without the test of self.conn: the connection is closed every time
DB_close_unguarded(D) ==
    [D EXCEPT !.sqlconn = [closed |-> TRUE, closes |-> @.closes + 1], !.db.conn = 0]

\* DB.close
DB_close(D) ==
    IF D.db.conn # 0
    THEN [D EXCEPT !.sqlconn = [closed |-> TRUE, closes |-> @.closes + 1], !.db.conn = 0]
    ELSE D

\* DB.__exit__(*args): the exception of the body, if any, is not looked at
DB_exit(D, raised) == DB_close(D)

\* what the driver can do in one call
Driver == [execFails : BOOLEAN, fetchFails : BOOLEAN, rows : 0..MaxRows,
           lastrowid : {7}, rowcount : {2}]

\* the driver inputs that differ in what a call on statement s can observe
DriverFor(s, fetches) ==
    {d \in Driver :
        /\ d.execFails => d.rows = 0 /\ ~d.fetchFails
        /\ ~fetches => ~d.fetchFails
        /\ (~fetches /\ (s = 0 \/ stmts[IF s = 0 THEN 1 ELSE s].op # "SELECT")) => d.rows = 0}

\* the driver is not called
NoDriver == [execFails |-> FALSE, fetchFails |-> FALSE, rows |-> 0, lastrowid |-> 0, rowcount |-> 0]

ApplyDb(name, s, r, drv) ==
    /\ ops < MaxDbOps
    /\ Len(r.D.cursors) <= MaxCursors
    /\ db' = r.D.db
    /\ sqlconn' = r.D.sqlconn
    /\ cursors' = r.D.cursors
    /\ rsets' = r.D.rsets
    /\ rlog' = IF Len(r.D.rsets) > Len(rsets)
               THEN Append(rlog, [call |-> "init", out |-> "return", done |-> FALSE, closed |-> FALSE])
               ELSE rlog
    /\ dlog' = [call |-> name, stmt |-> s, op |-> IF s = 0 THEN "" ELSE stmts[s].op, out |-> r.out,
                ret |-> r.ret, cur |-> r.cur, drv |-> drv,
                closeCalls |-> dlog.closeCalls + (IF name = "close" THEN 1 ELSE 0)]
    /\ ops' = ops + 1
    /\ UNCHANGED <<bvars, scope>>

DbCall ==
    \E s \in DOMAIN stmts \cup {0} : \E drv \in DriverFor(s, FALSE) :
        ApplyDb("call", s, DB_call(DbState, Heap, s, drv), drv)

DbFirst ==
    \E s \in DOMAIN stmts \cup {0} : \E drv \in DriverFor(s, TRUE) :
        ApplyDb("first", s, DB_first(DbState, Heap, s, drv), drv)

DbClose ==
    /\ scope # "in"
    /\ ApplyDb("close", 0, [D |-> DB_close(DbState), out |-> "return",
                            ret |-> [kind |-> "None", v |-> 0, cls |-> ""], cur |-> 0], NoDriver)

\* `with db:` is entered: __enter__ returns the DB object
DbEnter ==
    /\ scope = "none" /\ ops < MaxDbOps
    /\ scope' = "in"
    /\ dlog' = [call |-> "enter", stmt |-> 0, op |-> "", out |-> "return",
                ret |-> [kind |-> "DB", v |-> 0, cls |-> ""], cur |-> 0, drv |-> NoDriver,
                closeCalls |-> dlog.closeCalls]
    /\ ops' = ops + 1
    /\ UNCHANGED <<bvars, cursors, rsets, rlog, db, sqlconn>>

\* close() called inside the body of the `with` block
DbCloseInside ==
    /\ scope = "in"
    /\ ApplyDb("close", 0, [D |-> DB_close(DbState), out |-> "return",
                            ret |-> [kind |-> "None", v |-> 0, cls |-> ""], cur |-> 0], NoDriver)

\* the `with` block is left, its body having completed or raised
DbExit ==
    \E raised \in BOOLEAN :
        /\ scope = "in" /\ ops < MaxDbOps
        /\ LET D == DB_exit(DbState, raised)
           IN  /\ db' = D.db
               /\ sqlconn' = D.sqlconn
        /\ scope' = "left"
        /\ dlog' = [call |-> "exit", stmt |-> 0, op |-> IF raised THEN "raised" ELSE "", out |-> "return",
                    ret |-> [kind |-> "None", v |-> 0, cls |-> ""], cur |-> 0, drv |-> NoDriver,
                    closeCalls |-> dlog.closeCalls + 1]
        /\ ops' = ops + 1
        /\ UNCHANGED <<bvars, cursors, rsets, rlog>>

\* one statement, table(Row, "u"), on which one builder call can be made, and
\* an open DB
InitDB == StartFrom(<<table_init_typed("Row", << <<"u">> >>)>>, 1)

NextDB ==
    \/ Insert \/ Replace \/ Update \/ Delete
    \/ DbCall \/ DbFirst \/ DbClose \/ DbEnter \/ DbCloseInside \/ DbExit

SpecDB == InitDB /\ [][NextDB]_vars

(***************************************************************************)
(* A fluent chain of the six clause methods of a SELECT, each called once, *)
(* every call made on the statement the previous call returned (the last   *)
(* object of the heap: a clone is appended, a mutation is in place).       *)
(***************************************************************************)
GroupCols == {<<"g">>, <<"g", "h">>}

ApplyChain(r) ==
    /\ Len(r.H.stmts) <= MaxStmts
    /\ stmts' = r.H.stmts
    /\ conds' = r.H.conds
    /\ err' = r.err
    /\ rendered' = NoRender
    /\ UNCHANGED <<calls, cursors, rsets, rlog, ops, dvars>>

ChainHead == Len(stmts)

ChainWhere   == stmts[ChainHead].cond = 0
                /\ \E a \in WhereArgs : ApplyChain(table_where(Heap, ChainHead, a))
ChainGroupBy == stmts[ChainHead]._group_by = <<>>
                /\ \E c \in GroupCols : ApplyChain(table_group_by(Heap, ChainHead, c))
ChainHaving  == stmts[ChainHead]._having = 0
                /\ \E a \in HavingArgs : ApplyChain(table_having(Heap, ChainHead, a))
ChainOrderBy == stmts[ChainHead]._order_by = <<>>
                /\ ApplyChain(table_order_by(Heap, ChainHead, <<"o">>))
ChainLimit   == stmts[ChainHead]._limit = <<>>
                /\ \E n \in LimitArgs : ApplyChain(table_limit(Heap, ChainHead, n))
ChainOffset  == stmts[ChainHead]._offset = <<>>
                /\ \E n \in OffsetArgs : ApplyChain(table_offset(Heap, ChainHead, n))

NextClauses ==
    \/ ChainWhere \/ ChainGroupBy \/ ChainHaving
    \/ ChainOrderBy \/ ChainLimit \/ ChainOffset

SpecClauses == Init /\ [][NextClauses]_vars

(***************************************************************************)
(* Properties                                                              *)
(***************************************************************************)
Render(s) == table_render(Heap, s)

CondOf(H, s) == H.conds[H.stmts[s].cond]

\* S1 = S0.where(a=1) and then S2 = S0.where(b=2), made from the current heap:
\* the render of S0 before and after, and the renders of S1 and S2
Derive(s0) ==
    LET r1 == table_where(Heap, s0, ByKw(<<Kw("a", 1)>>))
        r2 == table_where(r1.H, s0, ByKw(<<Kw("b", 2)>>))
    IN  [before |-> table_render(Heap, s0), after |-> table_render(r2.H, s0),
         s1 |-> table_render(r2.H, r1.ret), s2 |-> table_render(r2.H, r2.ret),
         same |-> r1.ret = r2.ret]

\* neither derived statement has the other's condition text (the column of the
\* other call) or gained the other's value, and S0 renders as before
Independent(d) ==
    /\ d.after = d.before
    /\ Count("b", d.s1.sql) = 0
    /\ Count(2, d.s1.vals) = Count(2, d.before.vals)
    /\ Count("a", d.s2.sql) = 0
    /\ Count(1, d.s2.vals) = Count(1, d.before.vals)

\* C1 as stated: copy-on-write independence of S1 = S0.where(a=1) and
\* S2 = S0.where(b=2) for every reachable statement S0, whether freshly
\* constructed or returned by an earlier configuring call.
C1_IndependentAnyBase == \A s0 \in DOMAIN stmts : Independent(Derive(s0))

\* C1 amended: the independence holds for every reachable statement S0 whose
\* pristine flag is set; from such an S0 the two where() calls return two
\* different new statements.
C1_IndependentPristineBase ==
    \A s0 \in DOMAIN stmts :
        stmts[s0].pristine => LET d == Derive(s0) IN Independent(d) /\ ~d.same

\* two statements derived by where() from one pristine statement with CTEs
C1_Witness ==
    \E s0, s1, s2 \in DOMAIN stmts :
        /\ stmts[s0].pristine /\ ~stmts[s1].pristine /\ ~stmts[s2].pristine
        /\ stmts[s1].cond # 0 /\ stmts[s2].cond # 0
        /\ CondOf(Heap, s1) = [cond |-> <<"x", "=", "?">>, vals |-> <<1>>]
        /\ CondOf(Heap, s2) = [cond |-> <<"y", "=", "?">>, vals |-> <<2>>]
        /\ Render(s0).vals = <<>>

\* C2: in every statement's render, the number of ? placeholders of the text
\* equals the length of the value list.
C2_PlaceholderAlignment ==
    \A s \in DOMAIN stmts : Count("?", Render(s).sql) = Len(Render(s).vals)

\* the WITH clause render() emits for the CTEs of s, and their values
WithText(H, s) ==
    LET ws == H.stmts[s].withs
    IN  <<"WITH">> \o Join(<<",">>, [i \in DOMAIN ws |->
            <<ws[i].alias, "AS", "(">> \o table_render(H, ws[i].query).sql \o <<")">>])

WithVals(H, s) ==
    Flatten([i \in DOMAIN H.stmts[s].withs |-> table_render(H, H.stmts[s].withs[i].query).vals])

\* the render of s without its CTEs: the outer statement's own SQL and values
OuterRender(H, s) == table_render([H EXCEPT !.stmts[s].withs = <<>>], s)

\* C3: a statement of any operation kind with CTEs renders as the WITH clause
\* (each CTE in registration order) followed by the outer SQL, and its values
\* are the CTEs' values in registration order followed by the outer
\* statement's own values.
C3_CteComposition ==
    \A s \in DOMAIN stmts :
        stmts[s].withs # <<>> =>
            /\ Render(s).sql = WithText(Heap, s) \o OuterRender(Heap, s).sql
            /\ Render(s).vals = WithVals(Heap, s) \o OuterRender(Heap, s).vals

\* the clause keywords of a text, in the order they occur
RECURSIVE Keywords(_)
Keywords(sql) ==
    IF sql = <<>> THEN <<>>
    ELSE (IF Head(sql) \in {"WHERE", "GROUP", "HAVING", "ORDER", "LIMIT", "OFFSET"}
          THEN <<Head(sql)>> ELSE <<>>) \o Keywords(Tail(sql))

AllClausesSet(st) ==
    /\ st.op = "SELECT" /\ st.cond # 0 /\ st._having # 0
    /\ st._group_by # <<>> /\ st._order_by # <<>> /\ st._limit # <<>> /\ st._offset # <<>>

\* C4: a SELECT on which where, group_by, having, order_by, limit and offset
\* have all been called, in any order, renders each clause once, in the order
\* WHERE, GROUP BY, HAVING, ORDER BY, LIMIT, OFFSET, with the WHERE values
\* before the HAVING values.
C4_ClauseOrder ==
    \A s \in DOMAIN stmts :
        AllClausesSet(stmts[s]) =>
            /\ Keywords(Render(s).sql) = <<"WHERE", "GROUP", "HAVING", "ORDER", "LIMIT", "OFFSET">>
            /\ Render(s).vals = conds[stmts[s].cond].vals \o conds[stmts[s]._having].vals

\* all six clauses set, with having() called before where()
C4_Witness ==
    \E s \in DOMAIN stmts :
        /\ AllClausesSet(stmts[s])
        /\ stmts[s]._having < stmts[s].cond
        /\ conds[stmts[s].cond].vals # <<>> /\ conds[stmts[s]._having].vals # <<>>

\* C5: no where object (WHERE or HAVING) is referenced by two table objects.
C5_NoSharedCondition ==
    \A s1, s2 \in DOMAIN stmts :
        s1 # s2 => CondRefs(stmts[s1]) \cap CondRefs(stmts[s2]) = {}

\* a statement holding a WHERE condition and a copy of it made afterwards
C5_Witness ==
    \E s1, s2 \in DOMAIN stmts :
        /\ s1 < s2 /\ stmts[s1].cond # 0 /\ stmts[s2].cond # 0
        /\ stmts[s2] = [stmts[s1] EXCEPT !.cond = stmts[s2].cond]
        /\ CondOf(Heap, s1) = CondOf(Heap, s2)

\* C6: once next() has signalled the end because the cursor returned no row,
\* every further next() signals the end again (StopIteration).
C6_ExhaustionIsTerminal ==
    \A r \in DOMAIN rsets :
        rlog[r].done /\ rlog[r].call = "next" => rlog[r].out = "StopIteration"

\* C7: the cursor of a ResultSet (cursor r of ResultSet r) is closed once, at
\* the first fetch that returns no row or the first close(), and never again;
\* close() never raises.
C7_CursorClosedOnce ==
    \A r \in DOMAIN rsets :
        /\ cursors[r].closes = (IF rlog[r].done \/ rlog[r].closed THEN 1 ELSE 0)
        /\ cursors[r].closed = (cursors[r].closes = 1)
        /\ rlog[r].call = "close" => rlog[r].out = "return"

\* close() called on a ResultSet that next() had already exhausted
C7_Witness ==
    \E r \in DOMAIN rsets :
        rlog[r].done /\ rlog[r].call = "close" /\ cursors[r].closes = 1

\* the decimal text of the values given to the builder calls
ValueTexts == {ToString(v) : v \in 0..9}

\* C8: no value given to a builder call is formatted into the SQL text.
C8_NoValueInText ==
    \A s \in DOMAIN stmts :
        \A i \in DOMAIN Render(s).sql : Render(s).sql[i] \notin ValueTexts

\* C9: rendering an INSERT, INSERT OR REPLACE or UPDATE statement with an
\* empty assignment mapping fails with an error.
C9_EmptyAssignmentsFail ==
    \A s \in DOMAIN stmts :
        (stmts[s].op \in {"INSERT", "INSERT OR REPLACE", "UPDATE"} /\ stmts[s].updates = <<>>)
            => Render(s).err # "none"

\* where(x=1).and_(y=2).or_(z=3) made on statement s of the current heap
Chain(s) ==
    LET r1 == table_where(Heap, s, ByKw(<<Kw("x", 1)>>))
        r2 == table_and_(r1.H, r1.ret, ByKw(<<Kw("y", 2)>>))
        r3 == table_or_(r2.H, r2.ret, ByKw(<<Kw("z", 3)>>))
    IN  CondOf(r3.H, r3.ret)

\* the condition of s after and_/or_ appended fragment a with operator op
Appended(s, op, a) ==
    [cond |-> CondOf(Heap, s).cond \o <<op>> \o where_render_clause(a).cond,
     vals |-> CondOf(Heap, s).vals \o where_render_clause(a).vals]

\* C10: and_/or_ with non-Condition arguments append each fragment without
\* parentheses in call order: on a fresh statement where(x=1).and_(y=2).or_(z=3)
\* gives "x=? AND y=? OR z=?" with values [1, 2, 3], and on any statement with
\* a WHERE condition the text grows by the operator and the fragment and the
\* values by the fragment's values.
C10_ChainingOrder ==
    \A s \in DOMAIN stmts :
        /\ stmts[s].cond = 0 =>
             Chain(s) = [cond |-> <<"x", "=", "?", "AND", "y", "=", "?", "OR", "z", "=", "?">>,
                         vals |-> <<1, 2, 3>>]
        /\ stmts[s].cond # 0 =>
             /\ \A a \in AndArgs \cup OrArgs :
                  /\ CondOf(table_and_(Heap, s, a).H, s) = Appended(s, "AND", a)
                  /\ CondOf(table_or_(Heap, s, a).H, s) = Appended(s, "OR", a)

\* the chain where(x=1).and_(y=2).or_(z=3) made by three calls
C10_Witness ==
    \E s \in DOMAIN stmts :
        /\ stmts[s].cond # 0
        /\ CondOf(Heap, s) = [cond |-> <<"x", "=", "?", "AND", "y", "=", "?", "OR", "z", "=", "?">>,
                              vals |-> <<1, 2, 3>>]

\* A.and_(...) or A.or_(...), chosen by the operator word
Connect(H, a, op, arg) == IF op = "AND" THEN where_and_(H, a, arg) ELSE where_or_(H, a, arg)

\* C11: for two where objects A and B, A.and_(B) (A.or_(B)) returns A, leaves
\* A with the text "<old A> AND (<B>)" (OR) and the values of A followed by
\* the values of B, and leaves B and every other where object as it was; a
\* later and_ on A does not change B.
C11_SubCondition ==
    \A a, b \in DOMAIN conds : a # b =>
        \A op \in {"AND", "OR"} :
            LET r  == Connect(Heap, a, op, ByWhere(b))
                r2 == where_and_(r.H, a, ByKw(<<Kw("y", 2)>>))
            IN  /\ r.err = "none" /\ r.ret = a
                /\ r.H.conds[a] = [cond |-> conds[a].cond \o <<op, "(">> \o conds[b].cond \o <<")">>,
                                   vals |-> conds[a].vals \o conds[b].vals]
                /\ \A c \in DOMAIN conds \ {a} : r.H.conds[c] = conds[c]
                /\ r.H.stmts = stmts
                /\ r2.H.conds[b] = conds[b]

\* a where object that another one, holding a value, was combined into
C11_Witness ==
    \E a, b \in DOMAIN conds :
        /\ a # b /\ conds[b].vals # <<>>
        /\ conds[a].cond = <<"x", "=", "?", "AND", "(">> \o conds[b].cond \o <<")">>
        /\ conds[a].vals = <<1>> \o conds[b].vals

\* C12: when DB.__call__ returns, on INSERT / INSERT OR REPLACE it returned the
\* cursor's lastrowid and the cursor is closed; on UPDATE / DELETE it returned
\* the cursor's rowcount and the cursor is closed; on SELECT it returned a new
\* ResultSet holding the cursor and the statement's row type, and the cursor
\* is open and its close() was never called.
C12_DispatchByKind ==
    (dlog.call = "call" /\ dlog.out = "return") =>
        /\ dlog.cur = Len(cursors)
        /\ IsInsert(dlog.op) =>
              /\ dlog.ret = [kind |-> "lastrowid", v |-> dlog.drv.lastrowid, cls |-> ""]
              /\ cursors[dlog.cur].closed /\ cursors[dlog.cur].closes = 1
        /\ dlog.op \in {"UPDATE", "DELETE"} =>
              /\ dlog.ret = [kind |-> "rowcount", v |-> dlog.drv.rowcount, cls |-> ""]
              /\ cursors[dlog.cur].closed /\ cursors[dlog.cur].closes = 1
        /\ dlog.op = "SELECT" =>
              /\ dlog.ret = [kind |-> "ResultSet", v |-> Len(rsets), cls |-> stmts[dlog.stmt].row_type]
              /\ rsets[dlog.ret.v] = [cur |-> dlog.cur, cls |-> stmts[dlog.stmt].row_type]
              /\ ~cursors[dlog.cur].closed /\ cursors[dlog.cur].closes = 0
              /\ cursors[dlog.cur].rows = dlog.drv.rows

\* a SELECT of the statement with row type Row was executed and its cursor,
\* holding rows, is in the ResultSet returned
C12_Witness ==
    /\ dlog.call = "call" /\ dlog.out = "return" /\ dlog.op = "SELECT"
    /\ dlog.ret.cls = "Row" /\ cursors[dlog.cur].rows > 0

\* C13: when the driver raises nothing, DB.first returns; it has fetched one
\* row if the cursor had one and none otherwise, the cursor is closed (once),
\* and it returned the row wrapped by the statement's row type, or None when
\* the cursor had no row.
C13_FirstClosesCursor ==
    (dlog.call = "first" /\ dlog.cur # 0 /\ ~dlog.drv.execFails /\ ~dlog.drv.fetchFails) =>
        /\ dlog.out = "return"
        /\ cursors[dlog.cur].closed /\ cursors[dlog.cur].closes = 1
        /\ cursors[dlog.cur].rows = (IF dlog.drv.rows = 0 THEN 0 ELSE dlog.drv.rows - 1)
        /\ dlog.ret = (IF dlog.drv.rows = 0
                       THEN [kind |-> "None", v |-> 0, cls |-> ""]
                       ELSE [kind |-> "row", v |-> 0, cls |-> stmts[dlog.stmt].row_type])

\* first() on a SELECT that matched no row
C13_Witness ==
    /\ dlog.call = "first" /\ dlog.op = "SELECT" /\ dlog.cur # 0
    /\ dlog.drv.rows = 0 /\ ~dlog.drv.execFails /\ ~dlog.drv.fetchFails
    /\ dlog.ret.kind = "None"

\* C14: the connection's close() is called once, by the first close() or
\* __exit__ of the DB object, and never again; close() and __exit__ return
\* without raising; after the `with` block is left the connection is closed.
C14_CloseIdempotent ==
    /\ sqlconn.closes = (IF dlog.closeCalls > 0 THEN 1 ELSE 0)
    /\ sqlconn.closed = (sqlconn.closes = 1)
    /\ (db.conn = 0) = sqlconn.closed
    /\ dlog.call \in {"close", "exit"} => dlog.out = "return"
    /\ scope = "left" => sqlconn.closed

\* the `with` block was left by an exception after close() was called in it
C14_Witness ==
    /\ scope = "left" /\ dlog.call = "exit" /\ dlog.op = "raised"
    /\ dlog.closeCalls = 2

\* C20: after DB.__call__ on a statement that is not a SELECT, or DB.first on
\* any statement, has returned or raised, the cursor opened during the call
\* is closed.
C20_NoCursorLeak ==
    (dlog.call = "first" \/ (dlog.call = "call" /\ dlog.op # "SELECT")) =>
        (dlog.cur # 0 => cursors[dlog.cur].closed)

\* arguments giving both a textual predicate and keyword arguments
BothArgs == {a \in CondArgs : a.hasCond /\ a.kwargs # <<>>}

\* every object of the current heap is in heap H as it is now
Untouched(H) ==
    /\ \A x \in DOMAIN stmts : H.stmts[x] = stmts[x]
    /\ \A c \in DOMAIN conds : H.conds[c] = conds[c]

\* C15: given both a textual predicate and keyword arguments, where(...)
\* construction and where.and_/or_ raise TypeError and table.where/having/
\* and_/or_ raise an error, and every where and table object is left as it
\* was; a builder call that raises TypeError changes no existing object.
C15_MixedArgsFail ==
    /\ [](\A a \in BothArgs :
            /\ where_init(Heap, a).err = "TypeError" /\ where_init(Heap, a).H = Heap
            /\ \A c \in DOMAIN conds :
                  \A r \in {where_and_(Heap, c, a), where_or_(Heap, c, a)} :
                      r.err = "TypeError" /\ r.H = Heap
            /\ \A s \in DOMAIN stmts :
                  \A r \in {table_where(Heap, s, a), table_having(Heap, s, a),
                            table_and_(Heap, s, a), table_or_(Heap, s, a)} :
                      r.err # "none" /\ Untouched(r.H))
    /\ [][err' = "TypeError" =>
            /\ \A x \in DOMAIN stmts : stmts'[x] = stmts[x]
            /\ \A c \in DOMAIN conds : conds'[c] = conds[c]]_vars

\* a call has raised TypeError while a statement held a WHERE and a HAVING
\* condition
C15_Witness ==
    /\ err = "TypeError"
    /\ \E s \in DOMAIN stmts : stmts[s].cond # 0 /\ stmts[s]._having # 0

\* arguments of and_/or_ that where.render_clause accepts
GoodArgs == AndArgs \cup OrArgs \cup {ByWhere(b) : b \in DOMAIN conds}

ConfigCalls(s) ==
    {table_select(Heap, s, cols) : cols \in SelectArgs(s)}
    \cup {table_where(Heap, s, a) : a \in WhereArgs}
    \cup {table_having(Heap, s, a) : a \in HavingArgs}
    \cup {table_group_by(Heap, s, <<"g">>), table_order_by(Heap, s, <<"o">>)}
    \cup {table_limit(Heap, s, n) : n \in LimitArgs}
    \cup {table_offset(Heap, s, n) : n \in OffsetArgs}

\* the where objects and the CTE statements of statement n of heap H are all
\* objects that the current heap does not have
DeepCopied(H, n) ==
    /\ CondRefs(H.stmts[n]) \cap DOMAIN conds = {}
    /\ \A i \in DOMAIN H.stmts[n].withs : H.stmts[n].withs[i].query \notin DOMAIN stmts

\* C17: select, where, having, group_by, order_by, limit and offset called on
\* a statement whose pristine flag is set return a new statement, a deep copy,
\* and leave the receiver and every other object, hence the receiver's render,
\* as they were; called on a statement whose flag is cleared they return the
\* receiver itself and make no new statement.  The statement returned has the
\* flag cleared, and no call changes the flag of an existing statement.
C17_CopyOnWrite ==
    /\ [](\A s \in DOMAIN stmts : \A r \in ConfigCalls(s) :
            r.err = "none" =>
                /\ IF stmts[s].pristine
                   THEN /\ r.ret \notin DOMAIN stmts
                        /\ Untouched(r.H)
                        /\ table_render(r.H, s) = Render(s)
                        /\ DeepCopied(r.H, r.ret)
                   ELSE /\ r.ret = s
                        /\ DOMAIN r.H.stmts = DOMAIN stmts
                /\ ~r.H.stmts[r.ret].pristine
                /\ r.H.stmts[s].pristine = stmts[s].pristine)
    /\ [][\A x \in DOMAIN stmts : stmts'[x].pristine = stmts[x].pristine]_vars

\* limit() has copied the pristine statement and offset() has then changed
\* the copy in place: there are two statements
C17_Witness ==
    /\ Len(stmts) = 2
    /\ stmts[1].pristine /\ ~stmts[2].pristine
    /\ stmts[2]._limit # <<>> /\ stmts[2]._offset # <<>>

\* C18: a statement whose pristine flag is set differs from a newly
\* constructed one at most in its operation kind, assignments, tables, CTE
\* list and alias: it has no WHERE and no HAVING condition, empty GROUP BY,
\* ORDER BY, LIMIT and OFFSET text and the column list "*".
C18_PristineIsUnconfigured ==
    \A s \in DOMAIN stmts :
        stmts[s].pristine =>
            /\ stmts[s].cond = 0 /\ stmts[s]._having = 0
            /\ stmts[s]._group_by = <<>> /\ stmts[s]._order_by = <<>>
            /\ stmts[s]._limit = <<>> /\ stmts[s]._offset = <<>>
            /\ stmts[s].cols = <<Col("*")>>
            /\ stmts[s] = [table_init(stmts[s].tables) EXCEPT
                              !.op = stmts[s].op, !.updates = stmts[s].updates,
                              !.withs = stmts[s].withs, !.alias = stmts[s].alias]

\* a pristine statement changed by two in-place mutators
C18_Witness ==
    \E s \in DOMAIN stmts :
        /\ stmts[s].pristine
        /\ stmts[s].op = "UPDATE" /\ stmts[s].updates # <<>>
        /\ stmts[s].tables # << <<"t">> >>

====
